---- MODULE Spec2Model ----
(***************************************************************************)
(* A model of the emojs interpreter (src/unnamed/part_000).                *)
(*                                                                         *)
(* A string is a sequence of code points; a code point is written as a     *)
(* TLA+ string: a letter stands for itself, the emoji of the language are  *)
(* named ("POINT" is U+1F449, "SPEAK" U+1F5E3, "QMARK" U+2753, "PLAY"      *)
(* U+25B6, "EQ" U+1F7F0, "PLUS" U+2795, "WRENCH" U+1F527, "PUSH" U+1FAF7,  *)
(* "VS16" U+FE0F).  A grapheme is a non-empty string: a                    *)
(* code point with the variation selectors that follow it.                 *)
(***************************************************************************)
EXTENDS Integers, Sequences, FiniteSets, TLC

VARIABLES program, envs, stack, output, status, error

vars == <<program, envs, stack, output, status, error>>

----------------------------------------------------------------------------
(* Bounds of the model.                                                    *)

\* longest top-level program drawn in Init
MaxProgLen == 3
\* deepest nesting of interpret() activations the model follows: a call or a
\* block that would nest deeper is not taken (the code takes it; its host's
\* stack gives up some thousand activations further on only)
MaxDepth == 4

----------------------------------------------------------------------------
(* The symbols of the language, as graphemes.                              *)

ASSIGN == <<"POINT">>
PRINT == <<"SPEAK", "VS16">>
COND == <<"QMARK">>
ARROW == <<"PLAY", "VS16">>
EQUALS == <<"EQ">>
CONCAT == "PLUS"
FN_MARK == <<"WRENCH">>
STMT_SEP == "PUSH"

\* the three statement tokens, in the order of the tokens array
TokenList == <<ASSIGN, PRINT, COND>>

\* code points String.prototype.trim removes
WhiteSpace == {" "}
\* code points that extend the grapheme cluster they follow
Extend == {"VS16"}

----------------------------------------------------------------------------
(* Strings.                                                                *)

RECURSIVE ClusterLen(_, _)
\* the number of code points of the grapheme cluster of s that starts at i
ClusterLen(s, i) ==
    IF i + 1 <= Len(s) /\ s[i + 1] \in Extend
    THEN 1 + ClusterLen(s, i + 1)
    ELSE 1

RECURSIVE segment(_)
\* Intl.Segmenter, granularity grapheme: the clusters of str, in order
segment(str) ==
    IF str = <<>> THEN <<>>
    ELSE LET n == ClusterLen(str, 1)
         IN  <<SubSeq(str, 1, n)>> \o segment(SubSeq(str, n + 1, Len(str)))

RECURSIVE Join(_)
\* Array.prototype.join(""): the concatenation of the strings of parts
Join(parts) ==
    IF parts = <<>> THEN <<>> ELSE Head(parts) \o Join(Tail(parts))

RECURSIVE TrimStart(_)
TrimStart(s) ==
    IF s # <<>> /\ Head(s) \in WhiteSpace THEN TrimStart(Tail(s)) ELSE s

RECURSIVE TrimEnd(_)
TrimEnd(s) ==
    IF s # <<>> /\ s[Len(s)] \in WhiteSpace
    THEN TrimEnd(SubSeq(s, 1, Len(s) - 1))
    ELSE s

\* String.prototype.trim
Trim(s) == TrimEnd(TrimStart(s))

RECURSIVE SplitFrom(_, _, _)
SplitFrom(s, sep, acc) ==
    IF s = <<>> THEN <<acc>>
    ELSE IF Head(s) = sep THEN <<acc>> \o SplitFrom(Tail(s), sep, <<>>)
    ELSE SplitFrom(Tail(s), sep, Append(acc, Head(s)))

\* String.prototype.split on a separator of one code point
Split(s, sep) == SplitFrom(s, sep, <<>>)

\* String.prototype.startsWith
StartsWith(s, prefix) ==
    Len(s) >= Len(prefix) /\ SubSeq(s, 1, Len(prefix)) = prefix

\* Array.prototype.indexOf, counted from 1; 0 when x is not an element
IndexOf(arr, x) ==
    IF \E i \in 1..Len(arr) : arr[i] = x
    THEN CHOOSE i \in 1..Len(arr) :
             arr[i] = x /\ \A j \in 1..(i - 1) : arr[j] # x
    ELSE 0

----------------------------------------------------------------------------
(* Values: a string, a function, or undefined.                             *)

StrVal(s) == [type |-> "string", str |-> s, argNames |-> <<>>, body |-> <<>>]
FnVal(a, b) == [type |-> "fn", str |-> <<>>, argNames |-> a, body |-> b]
Undefined == [type |-> "undefined", str |-> <<>>, argNames |-> <<>>, body |-> <<>>]

\* Map.prototype.set on a plain map (a function from keys to values)
MapSet(m, k, v) == [x \in DOMAIN m \cup {k} |-> IF x = k THEN v ELSE m[x]]

EmptyMap == [x \in {} |-> Undefined]

----------------------------------------------------------------------------
(* ScopedMap.  envs is the heap of ScopedMap objects; an object is         *)
(* [local, localRef, parent]: its local is the plain map `local` when      *)
(* localRef = 0 and the ScopedMap envs[localRef] otherwise (the            *)
(* constructor's first argument); parent = 0 is an undefined parent.       *)

NewScopedMap(localRef, parent) ==
    [local |-> EmptyMap, localRef |-> localRef, parent |-> parent]

RECURSIVE ScopedHas(_, _, _)
\* ScopedMap.has
ScopedHas(h, e, key) ==
    LET localHas == IF h[e].localRef # 0
                    THEN ScopedHas(h, h[e].localRef, key)
                    ELSE key \in DOMAIN h[e].local
    IN  localHas \/ (h[e].parent # 0 /\ ScopedHas(h, h[e].parent, key))

RECURSIVE ScopedGetParentFirst(_, _, _)
\* a slip: the parent's binding is preferred to the local one
ScopedGetParentFirst(h, e, key) ==
    IF h[e].parent # 0 /\ ScopedHas(h, h[e].parent, key)
    THEN ScopedGetParentFirst(h, h[e].parent, key)
    ELSE IF h[e].localRef # 0
         THEN ScopedGetParentFirst(h, h[e].localRef, key)
         ELSE IF key \in DOMAIN h[e].local THEN h[e].local[key] ELSE Undefined

RECURSIVE ScopedGet(_, _, _)
\* ScopedMap.get
ScopedGet(h, e, key) ==
    LET localHas == IF h[e].localRef # 0
                    THEN ScopedHas(h, h[e].localRef, key)
                    ELSE key \in DOMAIN h[e].local
    IN  IF localHas
        THEN IF h[e].localRef # 0
             THEN ScopedGet(h, h[e].localRef, key)
             ELSE h[e].local[key]
        ELSE IF h[e].parent # 0
             THEN ScopedGet(h, h[e].parent, key)
             ELSE Undefined

\* a plausible slip: every set stores in the scope's own local map
ScopedSetAlwaysLocal(h, e, key, value) ==
    [h EXCEPT ![e].local = MapSet(@, key, value)]

RECURSIVE ScopedSetNewLocal(_, _, _, _)
\* another scoping: a name no scope of the chain binds is created in the
\* scope that sets it
ScopedSetNewLocal(h, e, key, value) ==
    IF h[e].localRef # 0 THEN ScopedSetNewLocal(h, h[e].localRef, key, value)
    ELSE IF key \in DOMAIN h[e].local \/ h[e].parent = 0
            \/ ~ScopedHas(h, h[e].parent, key)
    THEN [h EXCEPT ![e].local = MapSet(@, key, value)]
    ELSE ScopedSetNewLocal(h, h[e].parent, key, value)

RECURSIVE ScopedSet(_, _, _, _)
\* ScopedMap.set: the heap after this.set(key, value) on object e
ScopedSet(h, e, key, value) ==
    LET localHas == IF h[e].localRef # 0
                    THEN ScopedHas(h, h[e].localRef, key)
                    ELSE key \in DOMAIN h[e].local
    IN  IF localHas \/ h[e].parent = 0
        THEN IF h[e].localRef # 0
             THEN ScopedSet(h, h[e].localRef, key, value)
             ELSE [h EXCEPT ![e].local = MapSet(@, key, value)]
        ELSE ScopedSet(h, h[e].parent, key, value)

\* ScopedMap.createChild: the object it constructs
createChild(e) == NewScopedMap(0, e)

----------------------------------------------------------------------------
(* resolveValue, parseConcat, createFn, parseLine.                         *)

\* the result of an evaluation that never returns (resolveValue's loop)
Diverges == [diverges |-> TRUE, str |-> <<>>]
Returns(s) == [diverges |-> FALSE, str |-> s]

\* a slip: the loop looks up the name again instead of the value it read,
\* so it never advances once it has entered
ResolveLoopSameKey(val, h, e, trace) ==
    IF val.type = "string" /\ ScopedHas(h, e, val.str)
    THEN [diverges |-> TRUE, val |-> val, trace |-> Append(trace, val.str)]
    ELSE [diverges |-> FALSE, val |-> val, trace |-> trace]

RECURSIVE ResolveLoop(_, _, _, _)
\* the while loop of resolveValue from the value val; trace is the array
\* trace, whose elements after the first are the strings the loop has looked
\* up: meeting one of them again, it repeats for ever
ResolveLoop(val, h, e, trace) ==
    IF val.type = "string" /\ ScopedHas(h, e, val.str)
    THEN IF \E i \in 2..Len(trace) : trace[i] = val.str
         THEN [diverges |-> TRUE, val |-> val, trace |-> trace]
         ELSE ResolveLoop(ScopedGet(h, e, val.str), h, e, Append(trace, val.str))
    ELSE [diverges |-> FALSE, val |-> val, trace |-> trace]

\* a slip: an if in place of the while, so one alias only is followed
resolveValueOneHop(name, h, e) ==
    LET val == ScopedGet(h, e, name)
        next == IF val.type = "string" /\ ScopedHas(h, e, val.str)
                THEN ScopedGet(h, e, val.str) ELSE val
    IN  IF next.type = "string" THEN Returns(next.str) ELSE Returns(name)

\* a slip: when the chain ends at a value that is no text, the last text
\* looked up is returned instead of the name
resolveValueLastText(name, h, e) ==
    LET r == ResolveLoop(ScopedGet(h, e, name), h, e, <<name>>)
    IN  IF r.diverges THEN Diverges
        ELSE IF r.val.type = "string" THEN Returns(r.val.str)
        ELSE Returns(r.trace[Len(r.trace)])

\* resolveValue(name, varMap)
resolveValue(name, h, e) ==
    LET r == ResolveLoop(ScopedGet(h, e, name), h, e, <<name>>)
    IN  IF r.diverges THEN Diverges
        ELSE IF r.val.type = "string" THEN Returns(r.val.str)
        ELSE Returns(name)

\* a slip: a part that is no single grapheme is contributed trimmed
ConcatPartTrimmed(part, h, e) ==
    LET chars == segment(Trim(part))
    IN  IF Len(chars) = 1 THEN resolveValue(chars[1], h, e) ELSE Returns(Trim(part))

\* the callback of parseConcat's map: what one part contributes
ConcatPart(part, h, e) ==
    LET chars == segment(Trim(part))
    IN  IF Len(chars) = 1 THEN resolveValue(chars[1], h, e) ELSE Returns(part)

RECURSIVE ConcatParts(_, _, _)
ConcatParts(parts, h, e) ==
    IF parts = <<>> THEN Returns(<<>>)
    ELSE LET first == ConcatPart(Head(parts), h, e)
         IN  IF first.diverges THEN Diverges
             ELSE LET rest == ConcatParts(Tail(parts), h, e)
                  IN  IF rest.diverges THEN Diverges
                      ELSE Returns(first.str \o rest.str)

\* parseConcat(raw, varMap)
parseConcat(raw, h, e) == ConcatParts(Split(raw, CONCAT), h, e)

\* createFn(raw): [kind |-> "fn", fn], [kind |-> "false"] or [kind |-> "throw"]
createFn(raw) ==
    LET chars == segment(raw)
        arrowIndex == IndexOf(chars, ARROW)
    IN  IF StartsWith(raw, FN_MARK) \/ StartsWith(raw, ARROW)
        THEN IF arrowIndex = 0
             THEN [kind |-> "throw", fn |-> Undefined]
             ELSE [kind |-> "fn",
                   fn |-> FnVal(SubSeq(chars, 2, arrowIndex - 1),
                                Split(Join(SubSeq(chars, arrowIndex + 1, Len(chars))),
                                      STMT_SEP))]
        ELSE [kind |-> "false", fn |-> Undefined]

IsToken(g) == \E t \in 1..Len(TokenList) : TokenList[t] = g

\* the type of the node parseLine returns when it finds no token (undefined)
NoToken == <<>>

\* a slip: the tokens are tried in the order of the token table, so the line
\* is split at ASSIGN whenever it holds one
parseLineByTokenOrder(line) ==
    LET chars == segment(line)
    IN  IF \E i \in 1..Len(chars) : IsToken(chars[i])
        THEN LET t == CHOOSE t \in 1..Len(TokenList) :
                          /\ IndexOf(chars, TokenList[t]) # 0
                          /\ \A u \in 1..(t - 1) : IndexOf(chars, TokenList[u]) = 0
                 i == IndexOf(chars, TokenList[t])
                 before == Trim(Join(SubSeq(chars, 1, i - 1)))
                 after == SubSeq(chars, i + 1, Len(chars))
             IN  [type |-> chars[i],
                  args |-> IF chars[i] = ASSIGN
                           THEN <<before, Trim(Join(after))>>
                           ELSE after]
        ELSE [type |-> NoToken, args |-> <<>>]

\* parseLine(line): [type, args], with type NoToken for undefined
parseLine(line) ==
    LET chars == segment(line)
    IN  IF \E i \in 1..Len(chars) : IsToken(chars[i])
        THEN LET i == CHOOSE i \in 1..Len(chars) :
                          IsToken(chars[i]) /\ \A j \in 1..(i - 1) : ~IsToken(chars[j])
                 before == Trim(Join(SubSeq(chars, 1, i - 1)))
                 after == SubSeq(chars, i + 1, Len(chars))
             IN  [type |-> chars[i],
                  args |-> IF chars[i] = ASSIGN
                           THEN <<before, Trim(Join(after))>>
                           ELSE after]
        ELSE [type |-> NoToken, args |-> <<>>]

----------------------------------------------------------------------------
(* The statements: what tokens[i].evaluate does to the heap, given the     *)
(* node's args and the ScopedMap e it is handed.                           *)

\* tokens[0].evaluate (ASSIGN)
\* kind: "noop" (early return), "set" (heap is the heap after varMap.set),
\* "throw" (createFn threw) or "diverge" (parseConcat never returns)
AssignEffect(args, h, e) ==
    LET name == args[1]
        valueRaw == args[2]
        fn == createFn(valueRaw)
        resolved == parseConcat(valueRaw, h, e)
    IN  IF name = <<>> \/ valueRaw = <<>>
        THEN [kind |-> "noop", heap |-> h, error |-> ""]
        ELSE IF fn.kind = "throw"
        THEN [kind |-> "throw", heap |-> h, error |-> "Function definition missing ARROW"]
        ELSE IF fn.kind = "fn"
        THEN [kind |-> "set", heap |-> ScopedSet(h, e, name, fn.fn), error |-> ""]
        ELSE IF resolved.diverges
        THEN [kind |-> "diverge", heap |-> h, error |-> ""]
        ELSE [kind |-> "set", heap |-> ScopedSet(h, e, name, StrVal(resolved.str)),
              error |-> ""]

\* a slip: the text is printed as written, without parseConcat
PrintEffectRaw(args, h, e) == Returns(Join(args))

\* tokens[1].evaluate (PRINT): the line console.log writes, unless it diverges
PrintEffect(args, h, e) == parseConcat(Join(args), h, e)

\* a slip: the two sides are compared as written, unresolved
CondEffectUnresolved(args, h, e) ==
    LET chars == segment(Join(args))
        arrowIndex == IndexOf(chars, ARROW)
        condition == Trim(Join(SubSeq(chars, 1, arrowIndex - 1)))
        bodyStr == Trim(Join(SubSeq(chars, arrowIndex + 1, Len(chars))))
        conditionSeg == segment(condition)
        eqIndex == IndexOf(conditionSeg, EQUALS)
        lhs == Join(SubSeq(conditionSeg, 1, eqIndex - 1))
        rhs == Join(SubSeq(conditionSeg, eqIndex + 1, Len(conditionSeg)))
        fn == createFn(ARROW \o bodyStr)
    IN  IF arrowIndex = 0
        THEN [kind |-> "throw", body |-> <<>>, error |-> "Missing ARROW in conditional"]
        ELSE IF eqIndex = 0
        THEN [kind |-> "throw", body |-> <<>>, error |-> "Missing EQUALS in conditional"]
        ELSE IF lhs = rhs /\ fn.kind = "fn" /\ Len(fn.fn.argNames) = 0
        THEN [kind |-> "run", body |-> fn.fn.body, error |-> ""]
        ELSE [kind |-> "skip", body |-> <<>>, error |-> ""]

\* a slip: the EQUALS of the line is looked for before its ARROW
CondEffectEqualsFirst(args, h, e) ==
    LET chars == segment(Join(args))
        arrowIndex == IndexOf(chars, ARROW)
        condition == Trim(Join(SubSeq(chars, 1, arrowIndex - 1)))
        bodyStr == Trim(Join(SubSeq(chars, arrowIndex + 1, Len(chars))))
        conditionSeg == segment(condition)
        eqIndex == IndexOf(conditionSeg, EQUALS)
        lhs == parseConcat(Join(SubSeq(conditionSeg, 1, eqIndex - 1)), h, e)
        rhs == parseConcat(Join(SubSeq(conditionSeg, eqIndex + 1, Len(conditionSeg))), h, e)
        fn == createFn(ARROW \o bodyStr)
    IN  IF IndexOf(chars, EQUALS) = 0
        THEN [kind |-> "throw", body |-> <<>>, error |-> "Missing EQUALS in conditional"]
        ELSE IF arrowIndex = 0
        THEN [kind |-> "throw", body |-> <<>>, error |-> "Missing ARROW in conditional"]
        ELSE IF eqIndex = 0
        THEN [kind |-> "throw", body |-> <<>>, error |-> "Missing EQUALS in conditional"]
        ELSE IF lhs.diverges \/ rhs.diverges
        THEN [kind |-> "diverge", body |-> <<>>, error |-> ""]
        ELSE IF lhs.str = rhs.str
        THEN IF fn.kind = "throw"
             THEN [kind |-> "throw", body |-> <<>>,
                   error |-> "Function definition missing ARROW"]
             ELSE IF fn.kind = "fn" /\ Len(fn.fn.argNames) = 0
             THEN [kind |-> "run", body |-> fn.fn.body, error |-> ""]
             ELSE [kind |-> "skip", body |-> <<>>, error |-> ""]
        ELSE [kind |-> "skip", body |-> <<>>, error |-> ""]

\* tokens[2].evaluate (COND)
\* kind: "throw", "diverge", "skip" (nothing is run) or "run" (body is
\* interpreted in a new ScopedMap(varMap))
CondEffect(args, h, e) ==
    LET chars == segment(Join(args))
        arrowIndex == IndexOf(chars, ARROW)
        condition == Trim(Join(SubSeq(chars, 1, arrowIndex - 1)))
        bodyStr == Trim(Join(SubSeq(chars, arrowIndex + 1, Len(chars))))
        conditionSeg == segment(condition)
        eqIndex == IndexOf(conditionSeg, EQUALS)
        lhs == parseConcat(Join(SubSeq(conditionSeg, 1, eqIndex - 1)), h, e)
        rhs == parseConcat(Join(SubSeq(conditionSeg, eqIndex + 1, Len(conditionSeg))), h, e)
        fn == createFn(ARROW \o bodyStr)
    IN  IF arrowIndex = 0
        THEN [kind |-> "throw", body |-> <<>>, error |-> "Missing ARROW in conditional"]
        ELSE IF eqIndex = 0
        THEN [kind |-> "throw", body |-> <<>>, error |-> "Missing EQUALS in conditional"]
        ELSE IF lhs.diverges \/ rhs.diverges
        THEN [kind |-> "diverge", body |-> <<>>, error |-> ""]
        ELSE IF lhs.str = rhs.str
        THEN IF fn.kind = "throw"
             THEN [kind |-> "throw", body |-> <<>>,
                   error |-> "Function definition missing ARROW"]
             ELSE IF fn.kind = "fn" /\ Len(fn.fn.argNames) = 0
             THEN [kind |-> "run", body |-> fn.fn.body, error |-> ""]
             ELSE [kind |-> "skip", body |-> <<>>, error |-> ""]
        ELSE [kind |-> "skip", body |-> <<>>, error |-> ""]

RECURSIVE BindArgsShifted(_, _, _, _, _)
\* a slip: the function's name is counted as the first argument
BindArgsShifted(h, scoped, argNames, argsPassed, i) ==
    IF i > Len(argNames) THEN h
    ELSE BindArgsShifted(
             ScopedSet(h, scoped, argNames[i],
                       StrVal(IF i = 1 THEN argNames[1]
                              ELSE IF i - 1 <= Len(argsPassed) THEN argsPassed[i - 1]
                              ELSE <<>>)),
             scoped, argNames, argsPassed, i + 1)

RECURSIVE BindArgs(_, _, _, _, _)
\* argNames.forEach((arg, i) => scoped.set(arg, argsPassed[i] || "")), from i on
BindArgs(h, scoped, argNames, argsPassed, i) ==
    IF i > Len(argNames) THEN h
    ELSE BindArgs(ScopedSet(h, scoped, argNames[i],
                            StrVal(IF i <= Len(argsPassed) THEN argsPassed[i] ELSE <<>>)),
                  scoped, argNames, argsPassed, i + 1)

\* a slip: the check of the arguments of a function without parameters is
\* missing
CallEffectNoArityCheck(chars, h, e) ==
    LET fnName == chars[1]
        fnValue == ScopedGet(h, e, fnName)
        argsPassed == Tail(chars)
        scoped == Len(h) + 1
    IN  IF fnValue.type # "fn"
        THEN [kind |-> "unknown", heap |-> h, fn |-> Undefined,
              error |-> "Unknown syntax or function call"]
        ELSE [kind |-> "call",
              heap |-> BindArgs(Append(h, createChild(e)), scoped,
                                fnValue.argNames, argsPassed, 1),
              fn |-> fnValue, error |-> ""]

\* a slip: a name bound to the name of a function is called as that function
CallEffectAlias(chars, h, e) ==
    LET fnName == chars[1]
        direct == ScopedGet(h, e, fnName)
        fnValue == IF direct.type = "string" THEN ScopedGet(h, e, direct.str)
                   ELSE direct
        argsPassed == Tail(chars)
        scoped == Len(h) + 1
    IN  IF fnValue.type # "fn"
        THEN [kind |-> "unknown", heap |-> h, fn |-> Undefined,
              error |-> "Unknown syntax or function call"]
        ELSE IF Len(fnValue.argNames) = 0 /\ Len(argsPassed) > 0
        THEN [kind |-> "arity", heap |-> h, fn |-> fnValue,
              error |-> "Function takes no args but got some"]
        ELSE [kind |-> "call",
              heap |-> BindArgs(Append(h, createChild(e)), scoped,
                                fnValue.argNames, argsPassed, 1),
              fn |-> fnValue, error |-> ""]

\* a slip: the arguments are taken from the whole line, name included
CallEffectNoSlice(chars, h, e) ==
    LET fnName == chars[1]
        fnValue == ScopedGet(h, e, fnName)
        argsPassed == chars
        scoped == Len(h) + 1
    IN  IF fnValue.type # "fn"
        THEN [kind |-> "unknown", heap |-> h, fn |-> Undefined,
              error |-> "Unknown syntax or function call"]
        ELSE IF Len(fnValue.argNames) = 0 /\ Len(argsPassed) > 0
        THEN [kind |-> "arity", heap |-> h, fn |-> fnValue,
              error |-> "Function takes no args but got some"]
        ELSE [kind |-> "call",
              heap |-> BindArgs(Append(h, createChild(e)), scoped,
                                fnValue.argNames, argsPassed, 1),
              fn |-> fnValue, error |-> ""]

\* a slip (the scoping of the earlier src/index.ts): the body runs on a copy of
\* the bindings taken at the call, so what it assigns stays in the copy
CallEffectSnapshot(chars, h, e) ==
    LET fnName == chars[1]
        fnValue == ScopedGet(h, e, fnName)
        argsPassed == Tail(chars)
        scoped == Len(h) + 1
        copy == [k \in {n \in UNION {DOMAIN h[i].local : i \in 1..Len(h)} :
                            ScopedHas(h, e, n)} |-> ScopedGet(h, e, k)]
    IN  IF fnValue.type # "fn"
        THEN [kind |-> "unknown", heap |-> h, fn |-> Undefined,
              error |-> "Unknown syntax or function call"]
        ELSE IF Len(fnValue.argNames) = 0 /\ Len(argsPassed) > 0
        THEN [kind |-> "arity", heap |-> h, fn |-> fnValue,
              error |-> "Function takes no args but got some"]
        ELSE [kind |-> "call",
              heap |-> BindArgs(Append(h, [local |-> copy, localRef |-> 0, parent |-> 0]),
                                scoped, fnValue.argNames, argsPassed, 1),
              fn |-> fnValue, error |-> ""]

\* the function-call fallback of interpret, for a line with no token
\* kind: "unknown" (not a function: throws), "arity" (throws) or "call"
\* (heap is the heap with the child scope created and the arguments bound)
CallEffect(chars, h, e) ==
    LET fnName == chars[1]
        fnValue == ScopedGet(h, e, fnName)
        argsPassed == Tail(chars)
        scoped == Len(h) + 1
    IN  IF fnValue.type # "fn"
        THEN [kind |-> "unknown", heap |-> h, fn |-> Undefined,
              error |-> "Unknown syntax or function call"]
        ELSE IF Len(fnValue.argNames) = 0 /\ Len(argsPassed) > 0
        THEN [kind |-> "arity", heap |-> h, fn |-> fnValue,
              error |-> "Function takes no args but got some"]
        ELSE [kind |-> "call",
              heap |-> BindArgs(Append(h, createChild(e)), scoped,
                                fnValue.argNames, argsPassed, 1),
              fn |-> fnValue, error |-> ""]

----------------------------------------------------------------------------
(* The interpreter.  stack holds the activations of interpret, innermost   *)
(* last; an activation is its lines, the index pc of the line the for loop *)
(* is at, and the ScopedMap env it was handed.  The other fields record    *)
(* how the activation began (history, read by the properties only): kind   *)
(* ("top", "call" or "cond"), the trimmed line that began it, the function *)
(* called, the heap and the length of the output at that moment, and in    *)
(* fresh the names its statements (and those of the activations it started)*)
(* assigned while no scope of their chain bound them.                      *)

Frame(lines, env, kind, line, fn, heapAt, outAt) ==
    [lines |-> lines, pc |-> 1, env |-> env, kind |-> kind, line |-> line,
     fn |-> fn, heapAt |-> heapAt, outAt |-> outAt, fresh |-> {}]

Top == stack[Len(stack)]
Running == status = "running"
AtLine == Running /\ Top.pc <= Len(Top.lines)
\* const trimmed = line.trim()
Trimmed == Trim(Top.lines[Top.pc])
Ast == parseLine(Trimmed)

\* the for loop moves to the next line of the innermost activation
Continue(st) == [st EXCEPT ![Len(st)].pc = @ + 1]

\* a slip: the error is reported and the loop goes on with the next line
ThrowAndContinue(msg) ==
    /\ error' = msg
    /\ stack' = Continue(stack)
    /\ UNCHANGED <<program, envs, output, status>>

\* throw new Error(msg): nothing catches it, the run is over
Throw(msg) ==
    /\ status' = "error"
    /\ error' = msg
    /\ UNCHANGED <<program, envs, stack, output>>

\* an evaluation that never returns: the run stays inside this statement
Hang ==
    /\ status' = "diverged"
    /\ UNCHANGED <<program, envs, stack, output, error>>

\* if (!trimmed) continue
SkipBlank ==
    /\ AtLine
    /\ Trimmed = <<>>
    /\ stack' = Continue(stack)
    /\ UNCHANGED <<program, envs, output, status, error>>

\* a line whose first token is ASSIGN
ExecAssign ==
    /\ AtLine
    /\ Trimmed # <<>>
    /\ Ast.type = ASSIGN
    /\ LET eff == AssignEffect(Ast.args, envs, Top.env)
           name == Ast.args[1]
           isFresh == Top.kind # "top" /\ ~ScopedHas(envs, Top.env, name)
       IN  CASE eff.kind = "throw" -> Throw(eff.error)
             [] eff.kind = "diverge" -> Hang
             [] OTHER ->
                 /\ envs' = eff.heap
                 /\ stack' = [Continue(stack) EXCEPT ![Len(stack)].fresh =
                                 IF eff.kind = "set" /\ isFresh
                                 THEN @ \cup {name} ELSE @]
                 /\ UNCHANGED <<program, output, status, error>>

\* a line whose first token is PRINT
ExecPrint ==
    /\ AtLine
    /\ Trimmed # <<>>
    /\ Ast.type = PRINT
    /\ LET eff == PrintEffect(Ast.args, envs, Top.env)
       IN  IF eff.diverges THEN Hang
           ELSE /\ output' = Append(output, eff.str)
                /\ stack' = Continue(stack)
                /\ UNCHANGED <<program, envs, status, error>>

\* a line whose first token is COND
ExecCond ==
    /\ AtLine
    /\ Trimmed # <<>>
    /\ Ast.type = COND
    /\ LET eff == CondEffect(Ast.args, envs, Top.env)
       IN  CASE eff.kind = "throw" -> Throw(eff.error)
             [] eff.kind = "diverge" -> Hang
             [] eff.kind = "skip" ->
                 /\ stack' = Continue(stack)
                 /\ UNCHANGED <<program, envs, output, status, error>>
             [] OTHER ->
                 /\ Len(stack) < MaxDepth
                 /\ envs' = Append(envs, NewScopedMap(Top.env, 0))
                 /\ stack' = Append(stack,
                                    Frame(eff.body, Len(envs) + 1, "cond", Trimmed,
                                          Undefined, envs, Len(output)))
                 /\ UNCHANGED <<program, output, status, error>>

\* a line with no token: the function-call fallback
ExecCall ==
    /\ AtLine
    /\ Trimmed # <<>>
    /\ Ast.type = NoToken
    /\ LET eff == CallEffect(segment(Trimmed), envs, Top.env)
       IN  CASE eff.kind # "call" -> Throw(eff.error)
             [] OTHER ->
                 /\ Len(stack) < MaxDepth
                 /\ envs' = eff.heap
                 /\ stack' = Append(stack,
                                    Frame(eff.fn.body, Len(envs) + 1, "call", Trimmed,
                                          eff.fn, envs, Len(output)))
                 /\ UNCHANGED <<program, output, status, error>>

\* the for loop of an inner activation is over: interpret returns, its
\* ScopedMap is garbage, and the caller's loop continues
Return ==
    /\ Running
    /\ Len(stack) > 1
    /\ Top.pc > Len(Top.lines)
    /\ LET caller == Len(stack) - 1
       IN  stack' = [Continue(SubSeq(stack, 1, caller)) EXCEPT ![caller].fresh =
                        IF stack[caller].kind # "top" THEN @ \cup Top.fresh ELSE @]
    /\ envs' = SubSeq(envs, 1, Len(envs) - 1)
    /\ UNCHANGED <<program, output, status, error>>

\* the for loop of the outermost activation is over
Finish ==
    /\ Running
    /\ Len(stack) = 1
    /\ Top.pc > Len(Top.lines)
    /\ status' = "done"
    /\ UNCHANGED <<program, envs, stack, output, error>>

Next ==
    \/ SkipBlank
    \/ ExecAssign
    \/ ExecPrint
    \/ ExecCond
    \/ ExecCall
    \/ Return
    \/ Finish

----------------------------------------------------------------------------
(* The programs.  A line is written with the text it stands for.           *)

Hi == <<"H", "i">>
Yo == <<"Y", "o">>
Yes == <<"Y", "e", "s">>
Hello == <<"H", "e", "l", "l", "o">>

\* X POINT Yo
LnXYo == <<"X", "POINT">> \o Yo
\* SPEAK X
LnSayX == PRINT \o <<"X">>
\* F POINT WRENCH PLAY X POINT Hi      (no parameter; assigns X)
LnDefSetX == <<"F", "POINT", "WRENCH">> \o ARROW \o <<"X", "POINT">> \o Hi
\* F
LnF == <<"F">>
\* QMARK A EQ A PLAY X POINT Hi        (a block that assigns X)
LnCondSetX == <<"QMARK", "A", "EQ", "A">> \o ARROW \o <<"X", "POINT">> \o Hi
\* H POINT WRENCH P PLAY SPEAK P       (one parameter, printed)
LnDefSayP == <<"H", "POINT", "WRENCH", "P">> \o ARROW \o PRINT \o <<"P">>
\* HA
LnHA == <<"H", "A">>
\* G POINT WRENCH PLAY QMARK A EQ A PLAY X POINT Hi PUSH SPEAK X
\* (a function whose body is a block that assigns X, then a print)
LnDefNest == <<"G", "POINT", "WRENCH">> \o ARROW \o <<"QMARK", "A", "EQ", "A">>
             \o ARROW \o <<"X", "POINT">> \o Hi \o <<"PUSH">> \o PRINT \o <<"X">>
\* G
LnG == <<"G">>

ScopePool == {LnXYo, LnSayX, LnDefSetX, LnF, LnCondSetX, LnDefSayP, LnHA,
              LnDefNest, LnG}

\* F POINT WRENCH P PLAY P POINT P PLUS ! PUSH SPEAK P
LnDefBang == <<"F", "POINT", "WRENCH", "P">> \o ARROW
             \o <<"P", "POINT", "P", "PLUS", "!", "PUSH">> \o PRINT \o <<"P">>
\* F Hello
LnFHello == <<"F", " ">> \o Hello
\* FH
LnFH == <<"F", "H">>
\* Z POINT WRENCH PLAY SPEAK Hi        (no parameter)
LnDefSayHi == <<"Z", "POINT", "WRENCH">> \o ARROW \o PRINT \o Hi
\* Z
LnZ == <<"Z">>
\* Z X
LnZX == <<"Z", " ", "X">>
\* G POINT Z
LnGZ == <<"G", "POINT", "Z">>
\* E POINT WRENCH PLAY SPEAK Hi PUSH PUSH QMARK A EQ A PLAY Q PUSH SPEAK Yo
\* (prints, skips an empty statement, fails inside a block, never prints Yo)
LnDefFail == <<"E", "POINT", "WRENCH">> \o ARROW \o PRINT \o Hi
             \o <<"PUSH", "PUSH", "QMARK", "A", "EQ", "A">> \o ARROW
             \o <<"Q", "PUSH">> \o PRINT \o Yo
\* E
LnE == <<"E">>

\* SPEAK G
LnSayG == PRINT \o <<"G">>

CallPool == {LnDefBang, LnFHello, LnFH, LnDefSayHi, LnZ, LnZX, LnGZ, LnG,
             LnDefFail, LnE, LnSayG}

\* QMARK A EQ A PLAY SPEAK Yes
LnCondAA == <<"QMARK", "A", "EQ", "A">> \o ARROW \o PRINT \o Yes
\* QMARK A EQ B PLAY SPEAK Yes
LnCondAB == <<"QMARK", "A", "EQ", "B">> \o ARROW \o PRINT \o Yes
\* A POINT B
LnAB == <<"A", "POINT", "B">>
\* A POINT Hi
LnAHi == <<"A", "POINT">> \o Hi
\* QMARK A EQ Hi PLAY X POINT Yo PUSH SPEAK X
LnCondAHi == <<"QMARK", "A", "EQ">> \o Hi \o ARROW
             \o <<"X", "POINT">> \o Yo \o <<"PUSH">> \o PRINT \o <<"X">>
\* QMARK A PLAY SPEAK Yes              (no EQUALS)
LnCondNoEq == <<"QMARK", "A">> \o ARROW \o PRINT \o Yes
\* QMARK A EQ A                        (no ARROW)
LnCondNoArrow == <<"QMARK", "A", "EQ", "A">>

CondPool == {LnCondAA, LnCondAB, LnAB, LnAHi, LnCondAHi, LnSayX,
             LnCondNoEq, LnCondNoArrow}

\* B POINT C
LnBC == <<"B", "POINT", "C">>
\* C POINT Hello
LnCHello == <<"C", "POINT">> \o Hello
\* SPEAK A
LnSayA == PRINT \o <<"A">>
\* SPEAK B
LnSayB == PRINT \o <<"B">>
\* SPEAK C
LnSayC == PRINT \o <<"C">>
\* X POINT Hi
LnXHi == <<"X", "POINT">> \o Hi
\* Hi POINT Yo
LnHiYo == Hi \o <<"POINT">> \o Yo

\* X POINT X                           (X becomes an alias of itself)
LnXX == <<"X", "POINT", "X">>

AliasPool == {LnAB, LnBC, LnCHello, LnSayA, LnSayB, LnSayC, LnXHi, LnSayX, LnHiYo,
              LnXX}

\* R POINT WRENCH PLAY SPEAK Hi PUSH R   (a function that calls itself)
LnDefRec == <<"R", "POINT", "WRENCH">> \o ARROW \o PRINT \o Hi \o <<"PUSH", "R">>
\* R
LnR == <<"R">>

\* the alias chain A -> B -> C -> Hello, assigned in any order, then printed
ChainPrograms ==
    {<<p[1], p[2], p[3], LnSayA>> :
        p \in {q \in [1..3 -> {LnAB, LnBC, LnCHello}] :
                   \A i, j \in 1..3 : q[i] = q[j] => i = j}}

\* the script of the README, comments stripped
Happy == <<"H", "a", "p", "p", "y">>
Sad == <<"S", "a", "d">>
WhySoSad == <<"W", "h", "y", " ", "s", "o", " ", "s", "a", "d", "?">>
\* SMILE POINT Happy
LnHappy == <<"SMILE", "POINT">> \o Happy
\* SPEAK SMILE space                    (the space is left by the comment)
LnSaySmile == PRINT \o <<"SMILE", " ">>
\* FROWN POINT Sad                      (FROWN is followed by VS16)
LnSad == <<"FROWN", "VS16", "POINT">> \o Sad
\* CONFUSED POINT PLAY QMARK FROWN EQ Sad PLAY SPEAK Why so sad?
LnDefWhy == <<"CONFUSED", "POINT">> \o ARROW \o <<"QMARK", "FROWN", "VS16", "EQ">>
            \o Sad \o ARROW \o PRINT \o WhySoSad
\* RAGE POINT WRENCH LENS PLAY FROWN POINT LENS PUSH SPEAK Set FROWN to PLUS FROWN
LnDefSet == <<"RAGE", "POINT", "WRENCH", "LENS">> \o ARROW
            \o <<"FROWN", "VS16", "POINT", "LENS", "PUSH">> \o PRINT
            \o <<"S", "e", "t", " ", "FROWN", "VS16", " ", "t", "o", " ", "PLUS",
                 "FROWN", "VS16">>
\* CONFUSED
LnWhy == <<"CONFUSED">>
\* RAGE SMILE
LnSetSmile == <<"RAGE", "SMILE">>

ReadmeProgram ==
    <<LnHappy, LnSaySmile, LnSad, LnDefWhy, LnDefSet, LnWhy, LnSetSmile, LnWhy>>

\* S POINT PLAY SPEAK X                 (a function that prints the outer X)
LnDefSayX == <<"S", "POINT">> \o ARROW \o PRINT \o <<"X">>
\* S
LnS == <<"S">>

\* X is assigned after the definition and again between two calls
LiveProgram == <<LnDefSayX, LnXHi, LnS, LnXYo, LnS>>

\* N POINT WRENCH P PLAY QMARK P EQ P PLAY Y POINT P
\* (a function with a parameter whose body is a block that assigns Y)
LnDefN == <<"N", "POINT", "WRENCH", "P">> \o ARROW \o <<"QMARK", "P", "EQ", "P">>
          \o ARROW \o <<"Y", "POINT", "P">>
\* N A
LnNA == <<"N", "A">>
\* SPEAK Y
LnSayY == PRINT \o <<"Y">>

\* a block inside a call with a parameter
NestedProgram == <<LnDefN, LnNA, LnSayY>>

\* programs longer than the pools' programs, or outside them
Scenarios ==
    ChainPrograms
        \cup {<<LnDefRec, LnR, LnSayX>>, ReadmeProgram, LiveProgram, NestedProgram}

\* SPEAK Hi space PLUS X               (a literal part that ends in a space)
LnSayHiSpX == PRINT \o Hi \o <<" ", "PLUS", "X">>
\* SPEAK X space PLUS space Hi         (a name and a literal, spaces around PLUS)
LnSayXSpHi == PRINT \o <<"X", " ", "PLUS", " ">> \o Hi
\* SPEAK X PLUS space PLUS X           (a part that is a space only)
LnSayXSpX == PRINT \o <<"X", "PLUS", " ", "PLUS", "X">>
\* A POINT Hi space PLUS X
LnAHiSpX == <<"A", "POINT">> \o Hi \o <<" ", "PLUS", "X">>

ConcatPool == {LnXYo, LnSayHiSpX, LnSayXSpHi, LnSayXSpX, LnAHiSpX, LnSayA}

\* K POINT WRENCH P Q PLAY SPEAK P PLUS Q       (two parameters)
LnDefK == <<"K", "POINT", "WRENCH", "P", "Q">> \o ARROW \o PRINT \o <<"P", "PLUS", "Q">>
\* K A B
LnKAB == <<"K", "A", "B">>
\* K A                                  (no grapheme for Q)
LnKA == <<"K", "A">>
\* K                                    (no grapheme for P or Q)
LnK == <<"K">>
\* K A B C                              (one grapheme too many)
LnKABC == <<"K", "A", "B", "C">>
\* K space A                            (the space is the first argument)
LnKSpA == <<"K", " ", "A">>
\* K ARROW A                            (a grapheme of two code points)
LnKArrowA == <<"K">> \o ARROW \o <<"A">>

ArgsPool == {LnDefK, LnKAB, LnKA, LnK, LnKABC, LnKSpA, LnKArrowA}

\* SPEAK X POINT Hi                     (PRINT first, an ASSIGN after it)
LnSayXPointHi == PRINT \o <<"X", "POINT">> \o Hi
\* Yo SPEAK X                           (text before PRINT)
LnYoSayX == Yo \o PRINT \o <<"X">>
\* X POINT SPEAK Hi                     (ASSIGN first, a PRINT after it)
LnXPointSayHi == <<"X", "POINT">> \o PRINT \o Hi
\* X space POINT space Hi               (spaces around ASSIGN)
LnXSpPointSpHi == <<"X", " ", "POINT", " ">> \o Hi
\* Yo QMARK A EQ A PLAY X POINT Yo      (text before COND, an ASSIGN after it)
LnYoCondSetX == Yo \o <<"QMARK", "A", "EQ", "A">> \o ARROW \o <<"X", "POINT">> \o Yo
\* X POINT QMARK A EQ A PLAY SPEAK Hi   (ASSIGN first, a COND after it)
LnXPointCond == <<"X", "POINT", "QMARK", "A", "EQ", "A">> \o ARROW \o PRINT \o Hi
\* Yo                                   (no statement symbol)
LnYo == Yo

DispatchPool == {LnSayXPointHi, LnYoSayX, LnXPointSayHi, LnXSpPointSpHi,
                 LnYoCondSetX, LnXPointCond, LnYo, LnSayX}

\* X POINT WRENCH P                     (a function literal without ARROW)
LnXBadFn == <<"X", "POINT", "WRENCH", "P">>
\* QMARK A                              (neither ARROW nor EQUALS)
LnCondNeither == <<"QMARK", "A">>
\* QMARK A PLAY B EQ C                  (EQUALS in the body only)
LnCondEqInBody == <<"QMARK", "A">> \o ARROW \o <<"B", "EQ", "C">>

MalformedPool == {LnXHi, LnXBadFn, LnCondNoEq, LnCondNoArrow, LnCondNeither,
                  LnCondEqInBody, LnSayX}

\* the programs of at most MaxProgLen lines over a pool of lines
ProgramsOver(pool) == UNION {[1..n -> pool] : n \in 1..MaxProgLen}

Programs ==
    ProgramsOver(ScopePool) \cup ProgramsOver(CallPool)
        \cup ProgramsOver(CondPool) \cup ProgramsOver(AliasPool)
        \cup ProgramsOver(ConcatPool) \cup ProgramsOver(ArgsPool)
        \cup ProgramsOver(DispatchPool) \cup ProgramsOver(MalformedPool)
        \cup Scenarios

\* interpret(lines) with the default varMap = new ScopedMap()
Init ==
    /\ program \in Programs
    /\ envs = <<NewScopedMap(0, 0)>>
    /\ stack = <<Frame(program, 1, "top", <<>>, Undefined, <<>>, 0)>>
    /\ output = <<>>
    /\ status = "running"
    /\ error = ""

Spec == Init /\ [][Next]_vars

----------------------------------------------------------------------------
(* Properties.                                                             *)

\* the innermost activation has run all its lines and is about to return
Finished == Running /\ Len(stack) > 1 /\ Top.pc > Len(Top.lines)
\* the ScopedMap of the activation that started the innermost one
CallerEnv == stack[Len(stack) - 1].env
\* this step is the return of the innermost activation
ReturnStep == Finished /\ Len(stack') = Len(stack) - 1
\* what the innermost activation has printed so far
Printed == SubSeq(output, Top.outAt + 1, Len(output))
\* every name some plain local map of the heap h binds
BoundNames(h) == UNION {DOMAIN h[i].local : i \in 1..Len(h)}

\* C1: a name assigned inside a function-call body or a conditional block
\* while no enclosing scope bound it is unbound again in the caller's
\* environment once the call or block has returned.
C1_NewNamesDoNotLeak ==
    [][ReturnStep => \A k \in Top.fresh : ~ScopedHas(envs', CallerEnv, k)]_vars

\* this step is an assignment, by a statement of a call body or block, of a
\* name that some enclosing scope already binds
ReassignInside ==
    /\ AtLine
    /\ Trimmed # <<>>
    /\ Ast.type = ASSIGN
    /\ Top.kind # "top"
    /\ AssignEffect(Ast.args, envs, Top.env).kind = "set"
    /\ ScopedHas(envs, Top.env, Ast.args[1])
    /\ stack' # stack

\* the value the assignment statement of this line binds its name to
AssignedValue ==
    LET fn == createFn(Ast.args[2])
    IN  IF fn.kind = "fn" THEN fn.fn
        ELSE StrVal(parseConcat(Ast.args[2], envs, Top.env).str)

\* C2: a reassignment inside a call body or block, at any depth, replaces the
\* binding of the scope that owns the name: no local map gains a name, every
\* activation of the stack reads the new value at once, and the return of
\* the call or block changes nothing the caller reads.
C2_ReassignReachesOwner ==
    [][ /\ ReassignInside =>
            /\ \A i \in 1..Len(envs) : DOMAIN envs'[i].local = DOMAIN envs[i].local
            /\ \A d \in 1..Len(stack) :
                   ScopedGet(envs', stack[d].env, Ast.args[1]) = AssignedValue
        /\ ReturnStep =>
            \A k \in BoundNames(envs) :
                ScopedGet(envs', CallerEnv, k) = ScopedGet(envs, CallerEnv, k)
      ]_vars

\* a block inside a call has just reassigned a name its caller had bound to
\* something else when the block began
C2_Witness ==
    /\ Running
    /\ Len(stack) >= 3
    /\ Top.pc > 1
    /\ LET prev == parseLine(Trim(Top.lines[Top.pc - 1]))
       IN  /\ prev.type = ASSIGN
           /\ ScopedHas(Top.heapAt, CallerEnv, prev.args[1])
           /\ ScopedGet(envs, 1, prev.args[1]) # ScopedGet(Top.heapAt, 1, prev.args[1])
           /\ ScopedGet(envs, CallerEnv, prev.args[1]) = StrVal(Hi)

\* C3: a call binds its parameters in its own child environment only: when
\* it returns, the caller's environment binds every parameter name exactly as
\* it did before the call.
C3_ParametersAreLocal ==
    [][ReturnStep /\ Top.kind = "call" =>
          \A i \in 1..Len(Top.fn.argNames) :
              ScopedGet(envs', CallerEnv, Top.fn.argNames[i])
                  = ScopedGet(Top.heapAt, CallerEnv, Top.fn.argNames[i])]_vars

\* fn has one parameter P and the body  P ASSIGN P CONCAT !  ,  PRINT P
IsBangFn(fn) ==
    /\ fn.type = "fn"
    /\ Len(fn.argNames) = 1
    /\ fn.body = << fn.argNames[1] \o ASSIGN \o fn.argNames[1] \o <<CONCAT, "!">>,
                    PRINT \o fn.argNames[1] >>

\* the innermost activation is a finished call of such a function
FinishedBangCall == Finished /\ Top.kind = "call" /\ IsBangFn(Top.fn)

\* C4 as stated: called with the line  name, space, t  the function prints
\* exactly t followed by !, as one line.
C4_PrintsArgumentText ==
    FinishedBangCall /\ Len(Top.line) >= 3 /\ Top.line[2] = " " =>
        Printed = << SubSeq(Top.line, 3, Len(Top.line)) \o <<"!">> >>

\* the first grapheme after the function name on the call line, or the empty
\* string when the line is the name alone
FirstArg == IF Len(segment(Top.line)) >= 2 THEN segment(Top.line)[2] ELSE <<>>

\* C4, amended: the parameter receives only the first grapheme g after the
\* function name (the space of "F Hello"), and the call prints g followed by
\* !, as one line, provided that neither g, ! nor g! is a bound name (the
\* parameter's own name included).
C4_PrintsFirstGrapheme ==
    /\ FinishedBangCall
    /\ \A n \in {FirstArg, <<"!">>, FirstArg \o <<"!">>} :
           /\ ~ScopedHas(Top.heapAt, CallerEnv, n)
           /\ n # Top.fn.argNames[1]
    => Printed = << FirstArg \o <<"!">> >>

\* the call  F Hello  has finished
C4_Witness ==
    /\ FinishedBangCall
    /\ Top.line = LnFHello
    /\ Printed = << <<" ", "!">> >>

\* the error messages of the two throw statements of interpret
ArityMismatch == "Function takes no args but got some"
UnresolvedStatement == "Unknown syntax or function call"

\* the innermost activation is at a line with none of the three tokens
AtCallLine ==
    /\ AtLine
    /\ Trimmed # <<>>
    /\ \A i \in 1..Len(segment(Trimmed)) : ~IsToken(segment(Trimmed)[i])

\* the value the first grapheme of the line is bound to, by direct lookup
Callee == ScopedGet(envs, Top.env, segment(Trimmed)[1])

\* this step starts exactly one activation, of the lines body, at its first line
StartsBody(body, kind) ==
    /\ Len(stack') = Len(stack) + 1
    /\ SubSeq(stack', 1, Len(stack)) = stack
    /\ stack'[Len(stack')].lines = body
    /\ stack'[Len(stack')].pc = 1
    /\ stack'[Len(stack')].kind = kind
    /\ output' = output
    /\ status' = "running"

\* this step raises the fatal error msg and does nothing else
FailsWith(msg) ==
    /\ status' = "error"
    /\ error' = msg
    /\ UNCHANGED <<envs, stack, output>>

\* C5: a call line that is just the name of a function without parameters
\* starts the body once (the body  PRINT Hi  has printed Hi, once, when the call
\* returns); a call line with graphemes after the name raises ArityMismatch
\* with no output and no binding changed.
C5_ZeroParameterCalls ==
    [][ /\ ( /\ AtCallLine
             /\ Callee.type = "fn"
             /\ Callee.argNames = <<>>
             /\ Len(stack) < MaxDepth
             /\ vars' # vars ) =>
               IF Len(segment(Trimmed)) = 1
               THEN StartsBody(Callee.body, "call") /\ envs'[1] = envs[1]
               ELSE FailsWith(ArityMismatch)
        /\ ( /\ ReturnStep
             /\ Top.kind = "call"
             /\ Top.fn = FnVal(<<>>, <<PRINT \o Hi>>) ) => Printed = <<Hi>>
      ]_vars

\* Z printed Hi once, then  Z X  failed
C5_Witness ==
    /\ status = "error"
    /\ error = ArityMismatch
    /\ Trimmed = LnZX
    /\ output = <<Hi>>

\* the condition and body of the conditional line the activation is at
CondArrow == IndexOf(Ast.args, ARROW)
CondClause == segment(Trim(Join(SubSeq(Ast.args, 1, CondArrow - 1))))
CondEq == IndexOf(CondClause, EQUALS)
CondLhs == parseConcat(Join(SubSeq(CondClause, 1, CondEq - 1)), envs, Top.env)
CondRhs == parseConcat(Join(SubSeq(CondClause, CondEq + 1, Len(CondClause))),
                       envs, Top.env)
CondBody == createFn(ARROW \o Trim(Join(SubSeq(Ast.args, CondArrow + 1, Len(Ast.args)))))

\* the activation is at a well-formed conditional whose sides both evaluate
AtWellFormedCond ==
    /\ AtLine
    /\ Trimmed # <<>>
    /\ Ast.type = COND
    /\ CondArrow # 0
    /\ CondEq # 0
    /\ ~CondLhs.diverges
    /\ ~CondRhs.diverges
    /\ CondBody.kind = "fn"
    /\ CondBody.fn.argNames = <<>>

\* C6: a well-formed conditional starts its body, once, exactly when its two
\* sides evaluate to equal strings; when they differ the step prints nothing
\* and changes no binding.  QMARK A EQ A PLAY PRINT Yes prints Yes; with A and B
\* unbound, QMARK A EQ B PLAY PRINT Yes prints nothing.
C6_ConditionalGuard ==
    [][ /\ (AtWellFormedCond /\ Len(stack) < MaxDepth /\ vars' # vars) =>
              IF CondLhs.str = CondRhs.str
              THEN /\ StartsBody(CondBody.fn.body, "cond")
                   /\ SubSeq(envs', 1, Len(envs)) = envs
              ELSE /\ stack' = Continue(stack)
                   /\ UNCHANGED <<envs, output, status>>
        /\ (ReturnStep /\ Top.kind = "cond" /\ Top.line = LnCondAA) =>
              Printed = <<Yes>>
        /\ ( /\ AtLine
             /\ Trimmed = LnCondAB
             /\ ~ScopedHas(envs, Top.env, <<"A">>)
             /\ ~ScopedHas(envs, Top.env, <<"B">>)
             /\ vars' # vars ) =>
              /\ stack' = Continue(stack)
              /\ UNCHANGED <<envs, output, status>>
      ]_vars

\* a run in which the conditional with equal sides printed and the one with
\* different sides did not
C6_Witness ==
    /\ status = "done"
    /\ program = <<LnCondAB, LnCondAA, LnCondAB>>
    /\ output = <<Yes>>

\* the code points of the eight symbols
OperatorPoints ==
    {"POINT", "SPEAK", "QMARK", "PLAY", "EQ", "PLUS", "WRENCH", "PUSH"}

\* text that holds no symbol and no white space at its ends
IsLiteral(v) ==
    /\ v # <<>>
    /\ v = Trim(v)
    /\ \A i \in 1..Len(v) : v[i] \notin OperatorPoints

\* a name of one grapheme
IsShortName(n) == IsLiteral(n) /\ Len(segment(n)) = 1

\* prog is:  the assignments of an alias chain from name first down to the
\* literal last, in some order, and then the print of first
IsChainProgram(prog, first, last) ==
    LET k == Len(prog) - 1
        node(i) == parseLine(Trim(prog[i]))
    IN  /\ k >= 1
        /\ prog[k + 1] = PRINT \o first
        /\ \A i \in 1..k : node(i).type = ASSIGN
        /\ \A i \in 1..k :
               /\ IsShortName(node(i).args[1])
               /\ IsLiteral(node(i).args[2])
               /\ \A j \in 1..k : node(i).args[1] = node(j).args[1] => i = j
        /\ IsLiteral(last)
        /\ \A i \in 1..k : node(i).args[1] # last
        /\ \E o \in [1..k -> 1..k] :
               /\ \A i, j \in 1..k : o[i] = o[j] => i = j
               /\ node(o[1]).args[1] = first
               /\ \A i \in 1..(k - 1) : node(o[i]).args[2] = node(o[i + 1]).args[1]
               /\ node(o[k]).args[2] = last

\* the literals the programs assign
Literals == {<<"B">>, <<"C">>, Hello, Hi, Yo}

\* C7: from the empty environment, after the assignments of an alias chain
\* n1 -> n2 -> ... -> nk -> v, printing n1 writes exactly v.
C7_AliasChain ==
    status = "done" =>
        \A first \in {<<"A">>, <<"B">>, <<"C">>, <<"X">>} : \A last \in Literals :
            IsChainProgram(program, first, last) => output = <<last>>

\* the chain of three aliases of the example has printed Hello
C7_Witness ==
    /\ status = "done"
    /\ program = <<LnAB, LnBC, LnCHello, LnSayA>>
    /\ IsChainProgram(program, <<"A">>, Hello)
    /\ output = <<Hello>>

\* the two lines the activation has just executed are  X ASSIGN v  and
\* PRINT X, for a name X of one grapheme and a literal v of two or more
AfterAssignPrint(X, v) ==
    /\ stack # <<>>
    /\ Top.pc > 2
    /\ Top.pc <= Len(Top.lines) + 1
    /\ Trim(Top.lines[Top.pc - 2]) = X \o ASSIGN \o v
    /\ Trim(Top.lines[Top.pc - 1]) = PRINT \o X
    /\ IsShortName(X)
    /\ IsLiteral(v)
    /\ Len(segment(v)) >= 2

\* C8 as stated: in any reachable environment, X ASSIGN v and then PRINT X
\* print exactly v.
C8_RoundTrip ==
    \A X \in {<<"X">>} : \A v \in Literals :
        AfterAssignPrint(X, v) => output # <<>> /\ output[Len(output)] = v

\* C8, amended: X ASSIGN v and then PRINT X print exactly v provided v is not
\* itself a bound name of the environment.
C8_RoundTripUnboundValue ==
    \A X \in {<<"X">>} : \A v \in Literals :
        AfterAssignPrint(X, v) /\ ~ScopedHas(envs, Top.env, v) =>
            output # <<>> /\ output[Len(output)] = v

\* X ASSIGN Hi and PRINT X have printed Hi after an earlier print
C8_Witness ==
    /\ AfterAssignPrint(<<"X">>, Hi)
    /\ ~ScopedHas(envs, Top.env, Hi)
    /\ Len(output) >= 2
    /\ output[Len(output)] = Hi

\* C9: a line with none of the three statement symbols is executed as a
\* function call exactly when its first grapheme is bound, by direct lookup,
\* to a function; in every other case it raises UnresolvedStatement.
C9_CallOrFail ==
    [][(AtCallLine /\ vars' # vars) =>
          IF Callee.type = "fn"
          THEN \/ /\ StartsBody(Callee.body, "call")
                  /\ stack'[Len(stack')].fn = Callee
               \/ FailsWith(ArityMismatch)
          ELSE FailsWith(UnresolvedStatement)]_vars

\* a line whose first grapheme is bound to text has raised UnresolvedStatement
C9_Witness ==
    /\ status = "error"
    /\ error = UnresolvedStatement
    /\ Trimmed = LnG
    /\ Callee = StrVal(<<"Z">>)
    /\ ScopedGet(envs, Top.env, <<"Z">>).type = "fn"

\* C10: once a statement has raised a fatal error, at any depth, nothing
\* more happens: the failing step itself prints nothing and changes no
\* binding, and no later step changes the output or anything else.
C10_FailStop ==
    [][ /\ error = ""
        /\ error' # "" => /\ status' = "error"
                          /\ UNCHANGED <<envs, stack, output>> ]_vars

\* a statement of a block inside a function failed after a print, with
\* statements left in the function body and in the program
C10_Witness ==
    /\ status = "error"
    /\ error # ""
    /\ Len(stack) >= 3
    /\ output = <<Hi>>
    /\ \A d \in 1..(Len(stack) - 1) : stack[d].pc < Len(stack[d].lines)

\* the functions the lines of prog define: <<name, text of the body>>
FnDefs(prog) ==
    {<<parseLine(Trim(prog[i])).args[1],
       Join(createFn(parseLine(Trim(prog[i])).args[2]).fn.body)>> :
        i \in {j \in 1..Len(prog) :
                  /\ parseLine(Trim(prog[j])).type = ASSIGN
                  /\ parseLine(Trim(prog[j])).args[1] # <<>>
                  /\ createFn(parseLine(Trim(prog[j])).args[2]).kind = "fn"}}

\* the body of definition d mentions the name n (so it may call it)
Mentions(d, n) == \E i \in 1..Len(segment(d[2])) : segment(d[2])[i] = n

RECURSIVE CalledFrom(_, _, _)
\* the names the functions named in from may call, directly or through
\* others, within at most fuel calls
CalledFrom(defs, from, fuel) ==
    LET next == {d[1] : d \in {x \in defs : \E c \in defs :
                                   c[1] \in from /\ Mentions(c, x[1])}}
    IN  IF fuel = 0 THEN {} ELSE next \cup CalledFrom(defs, next, fuel - 1)

\* no function of prog can call itself, directly or through other functions,
\* and no body holds a function definition of its own
RecursionFree(prog) ==
    /\ \A d \in FnDefs(prog) :
           d[1] \notin CalledFrom(FnDefs(prog), {d[1]}, Cardinality(FnDefs(prog)))
    /\ \A d \in FnDefs(prog) : \A i \in 1..Len(d[2]) :
           d[2][i] = "POINT" /\ i < Len(d[2]) => d[2][i + 1] \notin {"WRENCH", "PLAY"}

\* C11: a program in which no function body calls itself, directly or through
\* mutual recursion, always terminates: its run never enters an evaluation
\* that does not return.
C11_TerminatesWithoutRecursion ==
    RecursionFree(program) => status # "diverged"

-----------------------------------------------------------------------------
(* The ScopedMap class on its own: objects are constructed over arbitrary  *)
(* local maps and parents, as the public constructor allows, and set is    *)
(* applied to any of them.  The interpreter's variables stay at rest.      *)

\* the largest number of ScopedMap objects of the heap
MaxObjects == 3

Keys == {<<"A">>, <<"B">>}

\* the local maps handed to the constructor bind keys to Hi only, so that a
\* Yo in a map was stored by set
LocalMaps == {[k \in d |-> StrVal(Hi)] : d \in SUBSET Keys}

SetValues == {StrVal(Hi), StrVal(Yo)}

InitScopedMap ==
    /\ envs = <<NewScopedMap(0, 0)>>
    /\ program = <<>>
    /\ stack = <<>>
    /\ output = <<>>
    /\ status = "api"
    /\ error = ""

\* new ScopedMap(m, p) over a plain map m, p = 0 for no parent
ApiNew ==
    /\ status = "api" /\ Len(envs) < MaxObjects
    /\ \E m \in LocalMaps, p \in 0..Len(envs) :
           envs' = Append(envs, [local |-> m, localRef |-> 0, parent |-> p])
    /\ UNCHANGED <<program, stack, output, status, error>>

\* new ScopedMap(r): an existing ScopedMap passed as the local, no parent
ApiWrap ==
    /\ status = "api" /\ Len(envs) < MaxObjects
    /\ \E r \in 1..Len(envs) : envs' = Append(envs, NewScopedMap(r, 0))
    /\ UNCHANGED <<program, stack, output, status, error>>

\* e.createChild()
ApiCreateChild ==
    /\ status = "api" /\ Len(envs) < MaxObjects
    /\ \E e \in 1..Len(envs) : envs' = Append(envs, createChild(e))
    /\ UNCHANGED <<program, stack, output, status, error>>

\* e.set(k, v)
ApiSet ==
    /\ status = "api"
    /\ \E e \in 1..Len(envs), k \in Keys, v \in SetValues :
           envs' = ScopedSet(envs, e, k, v)
    /\ UNCHANGED <<program, stack, output, status, error>>

NextScopedMap == ApiNew \/ ApiWrap \/ ApiCreateChild \/ ApiSet

SpecScopedMap == InitScopedMap /\ [][NextScopedMap]_vars

\* scope e holds key in what it uses as its local map
DefinesLocally(h, e, key) ==
    IF h[e].localRef # 0 THEN ScopedHas(h, h[e].localRef, key)
                         ELSE key \in DOMAIN h[e].local

RECURSIVE SetScope(_, _, _)
\* the scope of e's chain the claim's rule selects for a set of key: e itself
\* if it defines key locally or has no parent, else the choice of its parent
SetScope(h, e, key) ==
    IF DefinesLocally(h, e, key) \/ h[e].parent = 0 THEN e
    ELSE SetScope(h, h[e].parent, key)

RECURSIVE StoringScope(_, _, _)
\* the object whose plain map stores a set of key on e: the selected scope,
\* or, when that scope's local is itself a ScopedMap, the one that selects
StoringScope(h, e, key) ==
    LET s == SetScope(h, e, key)
    IN  IF h[s].localRef = 0 THEN s ELSE StoringScope(h, h[s].localRef, key)

\* C12: on every chain of scopes, e.set(k, v) changes the local map of exactly
\* one scope, the one the rule selects (e if it defines k locally or has no
\* parent, else the choice made on the parent), and stores v under k there;
\* right after it e.get(k) is v and e.has(k) is true; get and has look in the
\* local map first and in the parent second.
C12_SetGetConsistency ==
    \A e \in 1..Len(envs), k \in Keys :
        /\ \A v \in SetValues \cup {StrVal(Yes)} :
               LET h2 == ScopedSet(envs, e, k, v)
                   t == StoringScope(envs, e, k)
               IN  /\ Len(h2) = Len(envs)
                   /\ \A i \in 1..Len(envs) : i # t => h2[i] = envs[i]
                   /\ h2[t] = [envs[t] EXCEPT !.local = MapSet(envs[t].local, k, v)]
                   /\ h2[t] # envs[t] \/ ScopedGet(envs, e, k) = v
                   /\ ScopedGet(h2, e, k) = v
                   /\ ScopedHas(h2, e, k)
        /\ envs[e].localRef = 0 /\ k \in DOMAIN envs[e].local =>
               ScopedHas(envs, e, k) /\ ScopedGet(envs, e, k) = envs[e].local[k]
        /\ envs[e].localRef # 0 /\ ScopedHas(envs, envs[e].localRef, k) =>
               /\ ScopedHas(envs, e, k)
               /\ ScopedGet(envs, e, k) = ScopedGet(envs, envs[e].localRef, k)
        /\ ~DefinesLocally(envs, e, k) /\ envs[e].parent # 0 =>
               /\ ScopedHas(envs, e, k) = ScopedHas(envs, envs[e].parent, k)
               /\ ScopedGet(envs, e, k) = ScopedGet(envs, envs[e].parent, k)
        /\ ~DefinesLocally(envs, e, k) /\ envs[e].parent = 0 =>
               ~ScopedHas(envs, e, k) /\ ScopedGet(envs, e, k) = Undefined

\* a child that shadows A (its own A was set to Yo, the parent's is still Hi)
\* and whose set of B went to the parent, which defined B
C12_Witness ==
    \E c \in 1..Len(envs) :
        /\ envs[c].parent # 0 /\ envs[c].localRef = 0
        /\ DOMAIN envs[c].local = {<<"A">>}
        /\ envs[c].local[<<"A">>] = StrVal(Yo)
        /\ envs[envs[c].parent].localRef = 0
        /\ DOMAIN envs[envs[c].parent].local = Keys
        /\ envs[envs[c].parent].local[<<"A">>] = StrVal(Hi)
        /\ envs[envs[c].parent].local[<<"B">>] = StrVal(Yo)

-----------------------------------------------------------------------------
(* The resolver, on every environment a run reaches.                       *)

\* the names resolve is asked about: every bound name and an unbound one
AskedNames == BoundNames(envs) \cup {<<"Q">>}

\* n is bound to a text that is itself a bound name: an edge of the alias
\* relation, from n to that text
HasAlias(h, e, n) ==
    ScopedGet(h, e, n).type = "string" /\ ScopedHas(h, e, ScopedGet(h, e, n).str)

\* the names the alias chain from name passes through: the least set that
\* holds name and, with a member that has an alias, that alias
ChainNames(h, e, name) ==
    LET all == BoundNames(h) \cup {name}
        closed == {S \in SUBSET all :
                      /\ name \in S
                      /\ \A n \in S : HasAlias(h, e, n) => ScopedGet(h, e, n).str \in S}
    IN  {n \in all : \A S \in closed : n \in S}

\* the names at which the chain from name stops
ChainEnds(h, e, name) == {n \in ChainNames(h, e, name) : ~HasAlias(h, e, n)}

\* C13 (as claimed): resolve returns the last text value of the alias chain,
\* also when the chain from a text-bound name stops at a name bound to a
\* function (the last text is then that name), and returns the original name
\* only when the name has no binding at all.
C13_LastTextValue ==
    \A e \in 1..Len(envs), name \in AskedNames :
        \A t \in ChainEnds(envs, e, name) :
            LET r == resolveValue(name, envs, e)
                v == ScopedGet(envs, e, t)
            IN  /\ ~r.diverges
                /\ v.type = "string" => r.str = v.str
                /\ v.type = "fn" /\ t # name => r.str = t
                /\ r.str = name => ~ScopedHas(envs, e, name)

\* C13 (amended): resolve returns the text the alias chain stops at when it
\* stops at a text, and the original name in every other case: the name is
\* unbound, is bound to a function, or its chain stops at a name bound to a
\* function.  It returns nothing when the chain never stops.
C13_TextOrOriginalName ==
    \A e \in 1..Len(envs), name \in AskedNames :
        LET r == resolveValue(name, envs, e)
        IN  /\ r.diverges <=> ChainEnds(envs, e, name) = {}
            /\ \A t \in ChainEnds(envs, e, name) :
                   LET v == ScopedGet(envs, e, t)
                   IN  IF v.type = "string" THEN r.str = v.str ELSE r.str = name

\* G is bound to the text Z, Z to a function, and `SPEAK G` has printed G
C13_Witness ==
    /\ ScopedGet(envs, 1, <<"G">>) = StrVal(<<"Z">>)
    /\ ScopedGet(envs, 1, <<"Z">>).type = "fn"
    /\ Len(program) = 3 /\ program[3] = LnSayG
    /\ Len(output) = 1 /\ output[1] = <<"G">>

\* the alias relation has no cycle: every nonempty set of bound names has a
\* member with no alias inside the set
AliasAcyclic(h, e) ==
    \A S \in SUBSET BoundNames(h) :
        S # {} => \E n \in S : ~(HasAlias(h, e, n) /\ ScopedGet(h, e, n).str \in S)

\* the number of times the loop of resolve runs for name
ResolveSteps(name, h, e) ==
    Len(ResolveLoop(ScopedGet(h, e, name), h, e, <<name>>).trace) - 1

\* C14: in an environment whose alias relation has no cycle, resolve returns
\* for every name, after at most as many turns of its loop as there are
\* bound names.
C14_ResolveTerminates ==
    \A e \in 1..Len(envs) :
        AliasAcyclic(envs, e) =>
            \A name \in AskedNames :
                /\ ~resolveValue(name, envs, e).diverges
                /\ ResolveSteps(name, envs, e) <= Cardinality(BoundNames(envs))

\* A -> B -> C -> Hello without a cycle: resolving A took two turns of the
\* loop and `SPEAK A` printed Hello
C14_Witness ==
    /\ AliasAcyclic(envs, 1)
    /\ ResolveSteps(<<"A">>, envs, 1) = 2
    /\ Len(output) = 1 /\ output[1] = Hello

-----------------------------------------------------------------------------
(* Concatenation.                                                          *)

\* the parts of raw between the CONCAT symbols
PartsOf(raw) == Split(raw, CONCAT)

\* a part whose trimmed text is exactly one grapheme
IsNamePart(part) == Len(segment(Trim(part))) = 1

\* the text raw evaluates to when a part that is no single grapheme
\* contributes literal(part), every name resolving in the scope e
ConcatOf(raw, e, literal(_)) ==
    Join([i \in 1..Len(PartsOf(raw)) |->
            IF IsNamePart(PartsOf(raw)[i])
            THEN resolveValue(segment(Trim(PartsOf(raw)[i]))[1], envs, e).str
            ELSE literal(PartsOf(raw)[i])])

\* the step prints a line for a PRINT statement
PrintStep == AtLine /\ Ast.type = PRINT /\ Len(output') = Len(output) + 1

\* the step stores a text for an ASSIGN statement
AssignTextStep ==
    /\ AtLine /\ Ast.type = ASSIGN /\ envs' # envs
    /\ createFn(Ast.args[2]).kind = "false"

AsWritten(part) == part

\* C15 (as claimed): the text printed or assigned is the concatenation of one
\* contribution per part between CONCAT symbols: the resolved value for a part
\* whose trimmed text is one grapheme, the trimmed text for every other part.
C15_PartsTrimmed ==
    [][/\ PrintStep => output'[Len(output')] = ConcatOf(Join(Ast.args), Top.env, Trim)
       /\ AssignTextStep =>
              ScopedGet(envs', Top.env, Ast.args[1])
                  = StrVal(ConcatOf(Ast.args[2], Top.env, Trim))]_vars

\* C15 (amended): as above, but a part that is not one grapheme after trimming
\* contributes its text as written between the CONCAT symbols, surrounding
\* whitespace included.
C15_PartsAsWritten ==
    [][/\ PrintStep => output'[Len(output')] = ConcatOf(Join(Ast.args), Top.env, AsWritten)
       /\ AssignTextStep =>
              ScopedGet(envs', Top.env, Ast.args[1])
                  = StrVal(ConcatOf(Ast.args[2], Top.env, AsWritten))]_vars

\* with X bound to Yo, `SPEAK Hi space PLUS X` has printed Hi, a space, Yo
C15_Witness ==
    /\ Len(program) >= 2 /\ program[2] = LnSayHiSpX
    /\ ScopedGet(envs, 1, <<"X">>) = StrVal(Yo)
    /\ Len(output) = 1 /\ output[1] = Hi \o <<" ">> \o Yo

-----------------------------------------------------------------------------
(* Argument binding.                                                       *)

\* the line is a call of a function that has at least one parameter, at a
\* depth the model follows
AtCallWithParameters ==
    /\ AtCallLine
    /\ Callee.type = "fn" /\ Len(Callee.argNames) >= 1
    /\ Len(stack) < MaxDepth

\* the i-th grapheme that follows the function's name on the line, the empty
\* string when the line has none
ArgumentAt(i) ==
    IF i + 1 <= Len(segment(Trimmed)) THEN segment(Trimmed)[i + 1] ELSE <<>>

\* C16: a call of a function with at least one parameter starts the body
\* without an error, however many graphemes follow the name; in the body's
\* scope the i-th parameter is bound to the i-th grapheme after the name
\* (whitespace counts), to the empty string when there is none, and no other
\* name is bound or changed by the call.
C16_PositionalBinding ==
    [][AtCallWithParameters =>
          /\ StartsBody(Callee.body, "call")
          /\ status' = "running" /\ error' = ""
          /\ \A i \in 1..Len(Callee.argNames) :
                 (\A j \in (i + 1)..Len(Callee.argNames) :
                      Callee.argNames[j] # Callee.argNames[i])
                 => ScopedGet(envs', stack'[Len(stack')].env, Callee.argNames[i])
                        = StrVal(ArgumentAt(i))
          /\ \A k \in BoundNames(envs) \cup BoundNames(envs') :
                 (\A i \in 1..Len(Callee.argNames) : Callee.argNames[i] # k)
                 => ScopedGet(envs', stack'[Len(stack')].env, k)
                        = ScopedGet(envs, Top.env, k)]_vars

\* `K space A` has run with P the space and Q the letter A and printed both,
\* and `K A` is in its body with P bound to A and Q to the empty string
C16_Witness ==
    /\ program = <<LnDefK, LnKSpA, LnKA>>
    /\ Running /\ Top.kind = "call" /\ Top.pc = 1 /\ Top.line = LnKA
    /\ output = <<<<" ", "A">>>>
    /\ ScopedGet(envs, Top.env, <<"P">>) = StrVal(<<"A">>)
    /\ ScopedGet(envs, Top.env, <<"Q">>) = StrVal(<<>>)

-----------------------------------------------------------------------------
(* The view a body has of the outer variables.                             *)

\* what `SPEAK Set FROWN to PLUS FROWN` prints once FROWN is Happy
SetToHappy == <<"S", "e", "t", " ", "FROWN", "VS16", " ", "t", "o", " ">> \o Happy

\* C17: a body reads an outer variable as it is when the statement runs, not
\* as it was when the function was defined or at an earlier call.  The README
\* script prints Happy, then `Why so sad?` (first call of the conditional
\* function), then `Set FROWN to Happy`, and nothing on the second call of the
\* conditional function, the other function having changed FROWN in between;
\* a function printing X, defined before X was assigned, prints Hi and, after
\* X was reassigned, Yo.  Neither run ends in an error.
C17_LiveView ==
    /\ program \in {ReadmeProgram, LiveProgram} => status # "error"
    /\ program = ReadmeProgram =>
           \/ /\ Top.pc <= 6 /\ Len(stack) = 1
              /\ output = SubSeq(<<Happy>>, 1, IF Top.pc > 2 THEN 1 ELSE 0)
           \/ /\ stack[1].pc = 6 /\ Len(stack) > 1
              /\ output \in {<<Happy>>, <<Happy, WhySoSad>>}
           \/ /\ stack[1].pc = 7
              /\ output \in {<<Happy, WhySoSad>>, <<Happy, WhySoSad, SetToHappy>>}
           \/ /\ stack[1].pc >= 8
              /\ output = <<Happy, WhySoSad, SetToHappy>>
    /\ program = LiveProgram /\ status = "done" => output = <<Hi, Yo>>

\* the README script has ended: the second call of the conditional function
\* printed nothing, FROWN is Happy
C17_Witness ==
    /\ program = ReadmeProgram /\ status = "done"
    /\ output = <<Happy, WhySoSad, SetToHappy>>
    /\ ScopedGet(envs, 1, <<"FROWN", "VS16">>) = StrVal(Happy)

-----------------------------------------------------------------------------
(* Dispatch of a line.                                                     *)

StatementSymbols == {ASSIGN, PRINT, COND}

\* the index of the leftmost grapheme of the line that is a statement symbol,
\* 0 when the line has none
Leftmost ==
    LET gs == segment(Trimmed)
        at == {i \in 1..Len(gs) : gs[i] \in StatementSymbols}
    IN  IF at = {} THEN 0 ELSE CHOOSE i \in at : \A j \in at : i <= j

TextBefore == Join(SubSeq(segment(Trimmed), 1, Leftmost - 1))
GraphemesAfter == SubSeq(segment(Trimmed), Leftmost + 1, Len(segment(Trimmed)))

\* the step leaves every binding the activation reads as it was
NoBindingChanged ==
    \A k \in BoundNames(envs) \cup BoundNames(envs') :
        /\ ScopedHas(envs', Top.env, k) = ScopedHas(envs, Top.env, k)
        /\ ScopedGet(envs', Top.env, k) = ScopedGet(envs, Top.env, k)

\* the step is the assignment of the text after the symbol to the name before
\* it, both trimmed
AssignsSides ==
    LET eff == AssignEffect(<<Trim(TextBefore), Trim(Join(GraphemesAfter))>>,
                            envs, Top.env)
    IN  /\ output' = output /\ Len(stack') = Len(stack)
        /\ eff.kind \in {"noop", "set"} => envs' = eff.heap /\ status' = "running"
        /\ eff.kind = "throw" => FailsWith(eff.error)
        /\ eff.kind = "diverge" => status' = "diverged" /\ envs' = envs

\* the step prints what follows the symbol, whatever precedes it
PrintsAfter ==
    LET eff == PrintEffect(GraphemesAfter, envs, Top.env)
    IN  /\ NoBindingChanged /\ envs' = envs
        /\ IF eff.diverges THEN status' = "diverged" /\ output' = output
           ELSE status' = "running" /\ output' = Append(output, eff.str)

\* the step is the conditional made of what follows the symbol
TestsAfter ==
    LET eff == CondEffect(GraphemesAfter, envs, Top.env)
    IN  /\ NoBindingChanged /\ output' = output
        /\ eff.kind = "throw" => FailsWith(eff.error)
        /\ eff.kind = "diverge" => status' = "diverged"
        /\ eff.kind = "skip" => Len(stack') = Len(stack) /\ status' = "running"
        /\ eff.kind = "run" /\ Len(stack) < MaxDepth => StartsBody(eff.body, "cond")

\* the step is the call fallback on the whole line
FallsBackToCall ==
    LET eff == CallEffect(segment(Trimmed), envs, Top.env)
    IN  /\ output' = output
        /\ eff.kind # "call" => FailsWith(eff.error)
        /\ eff.kind = "call" /\ Len(stack) < MaxDepth =>
               StartsBody(eff.fn.body, "call") /\ envs' = eff.heap

\* C18: a line is dispatched on its leftmost grapheme that is a statement
\* symbol, whatever follows: ASSIGN assigns the trimmed text after it to the
\* trimmed text before it; PRINT prints what follows it and COND tests what
\* follows it, the text before being ignored and no binding changed by the
\* line, even if an ASSIGN follows; a line with no statement symbol goes to
\* the call fallback.
C18_LeftmostSymbolDecides ==
    [][AtLine /\ Trimmed # <<>> =>
          /\ Leftmost = 0 => FallsBackToCall
          /\ Leftmost # 0 =>
                 /\ segment(Trimmed)[Leftmost] = ASSIGN => AssignsSides
                 /\ segment(Trimmed)[Leftmost] = PRINT => PrintsAfter
                 /\ segment(Trimmed)[Leftmost] = COND => TestsAfter]_vars

\* `SPEAK X POINT Hi` has printed the text `X POINT Hi` and bound nothing
C18_Witness ==
    /\ program[1] = LnSayXPointHi /\ stack[1].pc = 2
    /\ output = <<<<"X", "POINT">> \o Hi>>
    /\ BoundNames(envs) = {}

-----------------------------------------------------------------------------
(* Malformed statements.                                                   *)

\* gs holds the grapheme g
Holds(gs, g) == \E i \in 1..Len(gs) : gs[i] = g

\* the graphemes of a conditional that precede its first ARROW
ClauseOf(gs) ==
    SubSeq(gs, 1, (CHOOSE i \in 1..Len(gs) :
                       gs[i] = ARROW /\ \A j \in 1..(i - 1) : gs[j] # ARROW) - 1)

\* the line assigns, to a name, a value that begins with FN_MARK and holds no
\* ARROW
AtFnLiteralWithoutArrow ==
    /\ AtLine /\ Leftmost # 0 /\ segment(Trimmed)[Leftmost] = ASSIGN
    /\ Trim(TextBefore) # <<>>
    /\ StartsWith(Trim(Join(GraphemesAfter)), FN_MARK)
    /\ ~Holds(segment(Trim(Join(GraphemesAfter))), ARROW)

\* the line is a conditional
AtCond == AtLine /\ Leftmost # 0 /\ segment(Trimmed)[Leftmost] = COND

\* C19: an assignment of a value that begins with FN_MARK and holds no ARROW
\* ends the run with an error and leaves the name's binding, and all else, as
\* it was; a conditional without ARROW, or whose clause before the ARROW has
\* no EQUALS, ends the run with an error without printing, running a body or
\* changing a binding; the ARROW is looked for first, so a conditional that
\* lacks both fails for its ARROW.
C19_MalformedFailsClean ==
    [][/\ AtFnLiteralWithoutArrow =>
              /\ FailsWith("Function definition missing ARROW")
              /\ ScopedGet(envs', Top.env, Trim(TextBefore))
                     = ScopedGet(envs, Top.env, Trim(TextBefore))
       /\ AtCond /\ ~Holds(GraphemesAfter, ARROW) =>
              FailsWith("Missing ARROW in conditional")
       /\ AtCond /\ Holds(GraphemesAfter, ARROW)
                 /\ ~Holds(segment(Trim(Join(ClauseOf(GraphemesAfter)))), EQUALS) =>
              FailsWith("Missing EQUALS in conditional")]_vars

\* X was Hi; then the conditional with neither ARROW nor EQUALS failed, for
\* its ARROW, and X is still Hi and nothing was printed
C19_Witness ==
    /\ Len(program) >= 2 /\ program[1] = LnXHi /\ program[2] = LnCondNeither
    /\ stack[1].pc = 2 /\ status = "error" /\ output = <<>>
    /\ error = "Missing ARROW in conditional"
    /\ ScopedGet(envs, 1, <<"X">>) = StrVal(Hi)

-----------------------------------------------------------------------------
(* Where the bindings live.                                                *)

\* C20: in every state of a run started on the default root environment, the
\* local map of every environment created for a call is empty, the wrapper
\* made for a conditional block holds nothing of its own and reads exactly
\* what the environment it wraps reads, and every binding any environment
\* reads is an entry of the root's local map.
C20_AllBindingsInRoot ==
    /\ envs[1].parent = 0 /\ envs[1].localRef = 0
    /\ \A i \in 2..Len(envs) :
           /\ envs[i].local = EmptyMap
           /\ (envs[i].parent # 0) # (envs[i].localRef # 0)
           /\ envs[i].localRef # 0 =>
                  \A k \in BoundNames(envs) :
                      ScopedGet(envs, i, k) = ScopedGet(envs, envs[i].localRef, k)
    /\ \A i \in 1..Len(stack) :
           /\ stack[i].kind = "call" => envs[stack[i].env].parent # 0
           /\ stack[i].kind = "cond" => envs[stack[i].env].localRef # 0
    /\ \A e \in 1..Len(envs), k \in BoundNames(envs) \cup {<<"Q">>} :
           ScopedHas(envs, e, k) =>
               k \in DOMAIN envs[1].local /\ ScopedGet(envs, e, k) = envs[1].local[k]

\* inside a block inside a call with a parameter that has assigned a new
\* name: the call's environment and the wrapper are empty, the parameter and
\* the new name are entries of the root's local map
C20_Witness ==
    /\ Running /\ Len(stack) >= 3
    /\ Top.kind = "cond" /\ Top.fresh # {}
    /\ \E i \in 2..(Len(stack) - 1) :
           /\ stack[i].kind = "call" /\ Len(stack[i].fn.argNames) >= 1
           /\ stack[i].fn.argNames[1] \in DOMAIN envs[1].local
           /\ envs[stack[i].env].local = EmptyMap
    /\ Top.fresh \subseteq DOMAIN envs[1].local

====
